---------------------------- MODULE Spec2Model ----------------------------
(***************************************************************************)
(* A model of mitiq/utils.py: the circuit equality check _equal, the       *)
(* maximally entangled state preparation _max_ent_state_circuit, the Choi  *)
(* circuit of _circuit_to_choi and the "poor man's tomography" estimator.  *)
(*                                                                         *)
(* Python objects are modelled with reference semantics.  A circuit object *)
(* is an entry of the heap circs (its list of moments), a MeasurementGate  *)
(* object is an entry of the heap gateKeys (its mutable attribute key); an *)
(* operation holds the index of its gate object.  The cirq library calls   *)
(* the code makes (deepcopy, transform_qubits, batch_remove, batch_insert, *)
(* CircuitDag) are modelled by what cirq does.                             *)
(***************************************************************************)
EXTENDS Integers, Sequences, FiniteSets, TLC

\* Largest number of operations of a circuit handed to _equal / _circuit_to_choi.
MaxOps == 2

\* LineQubit labels: the first argument of _equal lives on LowQubits, the
\* second one anywhere on Labels.
LowQubits == {0, 1}
Labels == {0, 1, 2}

\* Measurement keys of the caller's circuits.
Keys == {"a", "b"}

\* The key of an operation whose gate is no MeasurementGate.
NoKey == "<none>"

-----------------------------------------------------------------------------
(* Generic helpers                                                         *)

Max(a, b) == IF a >= b THEN a ELSE b

Min(a, b) == IF a <= b THEN a ELSE b

Range(s) == {s[i] : i \in DOMAIN s}

RECURSIVE Concat(_)
Concat(ss) == IF ss = <<>> THEN <<>> ELSE Head(ss) \o Concat(Tail(ss))

Reverse(s) == [i \in 1..Len(s) |-> s[Len(s) + 1 - i]]

\* Python's sorted() on a set of LineQubits (ordered by their index).
RECURSIVE Sorted(_)
Sorted(S) ==
  IF S = {} THEN <<>>
  ELSE LET m == CHOOSE x \in S : \A y \in S : x <= y
       IN <<m>> \o Sorted(S \ {m})

-----------------------------------------------------------------------------
(* Circuits as values: a sequence of moments, a moment a sequence of       *)
(* operations on disjoint qubits, an operation a gate on a qubit tuple.    *)

OpQubits(op) == Range(op.qubits)

\* Moment.operates_on(qubits)
OperatesOn(moment, qs) == \E i \in DOMAIN moment : OpQubits(moment[i]) \cap qs # {}

\* Circuit.all_operations(): the operations in moment order.
AllOperations(c) == Concat(c)

\* Circuit.all_qubits()
AllQubits(c) == UNION {OpQubits(AllOperations(c)[i]) : i \in DOMAIN AllOperations(c)}

\* len(circuit.all_qubits())
NumQubits(c) == Cardinality(AllQubits(c))

\* The operations a caller's circuit is made of, on the given qubits.
ValueOps(labels) ==
  {[gate |-> "H", qubits |-> <<q>>, key |-> NoKey] : q \in labels}
  \cup {[gate |-> "M", qubits |-> <<q>>, key |-> k] : q \in labels, k \in Keys}
  \cup {[gate |-> "CNOT", qubits |-> <<p[1], p[2]>>, key |-> NoKey] :
          p \in {x \in labels \X labels : x[1] # x[2]}}

DisjointOps(m) ==
  \A i, j \in DOMAIN m : i # j => OpQubits(m[i]) \cap OpQubits(m[j]) = {}

\* The moments of exactly n operations.
MomentsOfSize(labels, n) == {m \in [1..n -> ValueOps(labels)] : DisjointOps(m)}

\* The circuits of exactly n operations, no moment empty.
RECURSIVE CircuitsOfSize(_, _)
CircuitsOfSize(labels, n) ==
  IF n = 0 THEN {<<>>}
  ELSE UNION {{<<m>> \o c : m \in MomentsOfSize(labels, k),
                            c \in CircuitsOfSize(labels, n - k)} : k \in 1..n}

InputCircuits == UNION {CircuitsOfSize(LowQubits, n) : n \in 0..MaxOps}

\* The circuit with every qubit q replaced by f[q].
Relabel(c, f) ==
  [i \in DOMAIN c |->
     [j \in DOMAIN c[i] |->
        [c[i][j] EXCEPT !.qubits = [n \in DOMAIN c[i][j].qubits |-> f[c[i][j].qubits[n]]]]]]

Injections(S, T) == {f \in [S -> T] : \A x, y \in S : x # y => f[x] # f[y]}

OrderPreserving(f) == \A x, y \in DOMAIN f : x < y => f[x] < f[y]

\* The circuit with the key of the j-th measurement of moment i set to g[i][j].
Rekey(c, g) ==
  [i \in DOMAIN c |->
     [j \in DOMAIN c[i] |->
        IF c[i][j].gate = "M" THEN [c[i][j] EXCEPT !.key = g[i][j]] ELSE c[i][j]]]

Rekeyings(c) == {Rekey(c, g) : g \in [DOMAIN c -> [1..MaxOps -> Keys]]}

Relabelings(c) == {Relabel(c, f) : f \in Injections(AllQubits(c), Labels)}

SmallCircuits == {<<>>} \cup {<< <<op>> >> : op \in ValueOps(Labels)}

\* The second argument: a relabeling of the first, a re-keying of it, or an
\* unrelated small circuit.
SecondCircuits(c) == Relabelings(c) \cup Rekeyings(c) \cup SmallCircuits

-----------------------------------------------------------------------------
(* Python objects.  In a stored circuit an operation is                    *)
(* [gate, qubits, ref]: ref is the index in gateKeys of its                *)
(* MeasurementGate object, 0 for the immutable gates H and CNOT.           *)

VARIABLES
  circs,          \* heap of Circuit objects: object id -> list of moments
  gateKeys,       \* heap of MeasurementGate objects: object id -> key
  argOne, argTwo, \* the caller's two Circuit objects (ids in circs)
  callOne, callTwo,  \* what the caller's circuits held when _equal was called
  require_qubit_equality, require_measurement_equality,
  circuit_one, circuit_two,  \* the local names of _equal (ids in circs)
  circ,           \* the loop variable of lines 118-131 (an id in circs, 0: unset)
  measurements,   \* the list of (moment index, op) of lines 119-124
  circuit,        \* the argument of _circuit_to_choi
  num_qubits,     \* num_qubits of _circuit_to_choi / _max_ent_state_circuit
  full_circ,      \* the circuit _circuit_to_choi builds and simulates
  gate, qubit, depth,  \* the arguments of _poor_mans_tomography
  base_gate,      \* line 187
  moments,        \* the list of moments of _generate_pmt_circuit
  executor_calls, \* how many times the executor has been called
  executed,       \* the circuits handed to the executor, in order
  expectation,    \* what the executor returned (line 189)
  pc,             \* where the call stands
  result,         \* the value returned, or the exception raised
  call            \* the function that was called

equalVars == <<circs, gateKeys, argOne, argTwo, callOne, callTwo,
               require_qubit_equality, require_measurement_equality,
               circuit_one, circuit_two, circ, measurements>>

choiVars == <<circuit, num_qubits, full_circ>>

pmtVars == <<gate, qubit, depth, base_gate, moments, executor_calls,
             executed, expectation>>

vars == <<equalVars, choiVars, pmtVars, pc, result, call>>

\* The variables of a function that is not the one called.
EqualIdle ==
  /\ circs = <<>> /\ gateKeys = <<>> /\ argOne = 0 /\ argTwo = 0
  /\ callOne = <<>> /\ callTwo = <<>>
  /\ require_qubit_equality = FALSE /\ require_measurement_equality = FALSE
  /\ circuit_one = 0 /\ circuit_two = 0 /\ circ = 0 /\ measurements = <<>>

ChoiIdle == circuit = <<>> /\ num_qubits = 0 /\ full_circ = <<>>

PmtIdle ==
  /\ gate = "none" /\ qubit = 0 /\ depth = 0 /\ base_gate = "none"
  /\ moments = <<>> /\ executor_calls = 0 /\ executed = <<>>
  /\ expectation = "none"

IsMeasurement(op) == op.gate = "M"

\* The number of measurements among the first n operations of circuit c.
MeasRank(c, n) ==
  Cardinality({k \in 1..n : IsMeasurement(AllOperations(c)[k])})

\* The position of operation j of moment i among all operations of c.
FlatPos(c, i, j) == Len(Concat(SubSeq(c, 1, i - 1))) + j

\* The keys of the measurements of c, in operation order.
MeasKeys(c) ==
  LET ms == SelectSeq(AllOperations(c), IsMeasurement)
  IN [k \in DOMAIN ms |-> ms[k].key]

\* The circuit value c as a stored circuit, each measurement with a gate
\* object of its own, allocated after the first `base` gate objects.
Store(c, base) ==
  [i \in DOMAIN c |->
     [j \in DOMAIN c[i] |->
        [gate |-> c[i][j].gate, qubits |-> c[i][j].qubits,
         ref |-> IF IsMeasurement(c[i][j])
                 THEN base + MeasRank(c, FlatPos(c, i, j)) ELSE 0]]]

\* What a stored circuit holds: its moments, operations, qubits and keys.
ValueOf(hc, keys) ==
  [i \in DOMAIN hc |->
     [j \in DOMAIN hc[i] |->
        [gate |-> hc[i][j].gate, qubits |-> hc[i][j].qubits,
         key |-> IF IsMeasurement(hc[i][j]) THEN keys[hc[i][j].ref] ELSE NoKey]]]

Refs(hc) ==
  {AllOperations(hc)[k].ref : k \in {n \in DOMAIN AllOperations(hc) :
                                       IsMeasurement(AllOperations(hc)[n])}}

\* The position of x in the sequence s of distinct elements.
IndexOf(s, x) == CHOOSE i \in DOMAIN s : s[i] = x

\* A copy that shares the gate objects of the original.
ShallowCopy(hc, keys) == [circuit |-> hc, keys |-> keys]

\* copy.deepcopy(circuit): every gate object of the circuit is copied too.
DeepCopy(hc, keys) ==
  LET old == Sorted(Refs(hc))
      new(r) == Len(keys) + IndexOf(old, r)
  IN [circuit |->
        [i \in DOMAIN hc |->
           [j \in DOMAIN hc[i] |->
              IF IsMeasurement(hc[i][j])
              THEN [hc[i][j] EXCEPT !.ref = new(hc[i][j].ref)]
              ELSE hc[i][j]]],
      keys |-> keys \o [k \in DOMAIN old |-> keys[old[k]]]]

\* dict(zip(sorted(...), reversed(sorted(...)))): the pairing upside down.
QubitMapReversed(qs_one, qs_two) ==
  LET s1 == Sorted(qs_one)
      s2 == Reverse(Sorted(qs_two))
      n == Min(Len(s1), Len(s2))
  IN [q \in {s1[i] : i \in 1..n} |-> s2[IndexOf(s1, q)]]

\* dict(zip(sorted(circuit_one.all_qubits()), sorted(circuit_two.all_qubits()))):
\* zip stops at the shorter of the two lists.
QubitMap(qs_one, qs_two) ==
  LET s1 == Sorted(qs_one)
      s2 == Sorted(qs_two)
      n == Min(Len(s1), Len(s2))
  IN [q \in {s1[i] : i \in 1..n} |-> s2[IndexOf(s1, q)]]

\* circuit.transform_qubits(lambda q: qubit_map[q]): a new circuit whose
\* operations act on the mapped qubits and keep their gate objects.
TransformQubits(hc, qubit_map) == Relabel(hc, qubit_map)

\* circ.findall_operations_with_gate_type(MeasurementGate), as the list of
\* (moment index, op) of lines 119-124.  Moment indices count from 0.
FindallMeasurements(hc) ==
  Concat([i \in DOMAIN hc |->
            LET ms == SelectSeq(hc[i], IsMeasurement)
            IN [k \in DOMAIN ms |-> [moment |-> i - 1, op |-> ms[k]]]])

\* circ.batch_remove(measurements): the listed operations leave their
\* moments; a moment left empty stays in the circuit.
BatchRemove(hc, removals) ==
  [i \in DOMAIN hc |->
     SelectSeq(hc[i],
               LAMBDA o : ~\E k \in DOMAIN removals :
                             removals[k].moment = i - 1 /\ removals[k].op = o)]

\* Circuit._can_add_op_at(moment_index, operation)
CanAddOpAt(ms, moment_index, op) ==
  IF moment_index < 0 \/ moment_index >= Len(ms) THEN TRUE
  ELSE ~OperatesOn(ms[moment_index + 1], OpQubits(op))

\* Circuit._prev_moment_available(op, end_moment_index): scan backwards
\* while the moments do not touch the qubits of op.
RECURSIVE PrevMomentScan(_, _, _, _)
PrevMomentScan(ms, op, k, last_available) ==
  IF k <= 0 THEN last_available
  ELSE IF OperatesOn(ms[k], OpQubits(op)) THEN last_available
  ELSE PrevMomentScan(ms, op, k - 1, k - 1)

PrevMomentAvailable(ms, op, end_moment_index) ==
  PrevMomentScan(ms, op, end_moment_index, end_moment_index)

\* list.insert(index, x), index counted from 0
ListInsert(s, index, x) ==
  SubSeq(s, 1, index) \o <<x>> \o SubSeq(s, index + 1, Len(s))

\* InsertStrategy.INLINE falling back on NEW: the operation goes into the
\* moment before the insertion index when that moment has room.
PickInline(ms, splitter_index, op) ==
  IF /\ 0 <= splitter_index - 1
     /\ splitter_index - 1 < Len(ms)
     /\ CanAddOpAt(ms, splitter_index - 1, op)
  THEN [moments |-> ms, p |-> splitter_index - 1]
  ELSE [moments |-> ListInsert(ms, splitter_index, <<>>), p |-> splitter_index]

\* Circuit._pick_or_create_inserted_op_moment_index with InsertStrategy.EARLIEST
PickEarliest(ms, splitter_index, op) ==
  IF CanAddOpAt(ms, splitter_index, op)
  THEN [moments |-> ms, p |-> PrevMomentAvailable(ms, op, splitter_index)]
  ELSE PickInline(ms, splitter_index, op)

\* The loop of Circuit.insert(index, ops, InsertStrategy.EARLIEST); returns
\* the moments and the index after the last insertion.
RECURSIVE InsertOps(_, _, _)
InsertOps(ms, k, ops) ==
  IF ops = <<>> THEN [moments |-> ms, k |-> k]
  ELSE LET pick == PickEarliest(ms, k, Head(ops))
           padded == IF pick.p >= Len(pick.moments)
                     THEN pick.moments \o
                          [n \in 1..(pick.p + 1 - Len(pick.moments)) |-> <<>>]
                     ELSE pick.moments
           placed == [padded EXCEPT ![pick.p + 1] = Append(@, Head(ops))]
       IN InsertOps(placed, Max(k, pick.p + 1), Tail(ops))

CircuitInsert(ms, index, ops) == InsertOps(ms, Max(Min(index, Len(ms)), 0), ops)

\* The number of leading insertions at the moment index of the first one.
RECURSIVE GroupLen(_)
GroupLen(ins) ==
  IF Len(ins) <= 1 THEN Len(ins)
  ELSE IF ins[2].moment = ins[1].moment THEN 1 + GroupLen(Tail(ins)) ELSE 1

\* The loop of Circuit.batch_insert over the groups of equal moment index.
RECURSIVE BatchInsertFrom(_, _, _)
BatchInsertFrom(ms, ins, shift) ==
  IF ins = <<>> THEN ms
  ELSE LET n == GroupLen(ins)
           group == [j \in 1..n |-> ins[j].op]
           insert_index == ins[1].moment + shift
           r == CircuitInsert(ms, insert_index, Reverse(group))
           next_shift == IF r.k > insert_index
                         THEN shift + (r.k - insert_index) ELSE shift
       IN BatchInsertFrom(r.moments, SubSeq(ins, n + 1, Len(ins)), next_shift)

\* circ.batch_insert(measurements).  The list is already sorted by moment
\* index, which is the order batch_insert's stable sort would give it.
BatchInsert(hc, insertions) == BatchInsertFrom(hc, insertions, 0)

\* The loop of lines 127-129 left out: no key is reset.
KeysKept(keys, ms) == keys

\* Lines 127-129: gate.key = "" for the gate of every listed measurement.
ResetKeys(keys, ms) ==
  [r \in DOMAIN keys |->
     IF \E k \in DOMAIN ms : ms[k].op.ref = r THEN "" ELSE keys[r]]

\* CircuitDag.from_circuit(circuit): a node per operation, an edge from an
\* operation to every later one that shares a qubit with it.  CircuitDag's
\* equality is a graph isomorphism that matches equal operations; equal
\* operations act on the same qubits, so they are totally ordered by the
\* edges and an isomorphism maps the n-th of them to the n-th.  A node is
\* therefore named by its operation and its rank among the equal ones.
CircuitDag(c) ==
  LET ops == AllOperations(c)
      node(i) == <<ops[i], Cardinality({j \in 1..i : ops[j] = ops[i]})>>
  IN [nodes |-> {node(i) : i \in DOMAIN ops},
      edges |-> {<<node(e[1]), node(e[2])>> :
                   e \in {x \in (DOMAIN ops) \X (DOMAIN ops) :
                            /\ x[1] < x[2]
                            /\ OpQubits(ops[x[1]]) \cap OpQubits(ops[x[2]]) # {}}}]

-----------------------------------------------------------------------------
(* _equal(circuit_one, circuit_two, require_qubit_equality,                *)
(*        require_measurement_equality), lines 79-135                      *)

\* Where the call goes after the qubit step, and after the copies when
\* qubit equality is required (the tests of lines 107 and 117).
AfterQubits == IF ~require_measurement_equality THEN "neutralize" ELSE "compare"

AfterCopies == IF ~require_qubit_equality THEN "transform" ELSE AfterQubits

InitEqual ==
  /\ call = "equal"
  /\ \E A \in InputCircuits, same \in BOOLEAN :
       \E B \in (IF same THEN {A} ELSE SecondCircuits(A)) :
         /\ callOne = A
         /\ callTwo = B
         /\ argOne = 1
         /\ argTwo = IF same THEN 1 ELSE 2
         /\ gateKeys = MeasKeys(A) \o (IF same THEN <<>> ELSE MeasKeys(B))
         /\ circs = IF same THEN <<Store(A, 0)>>
                    ELSE <<Store(A, 0), Store(B, Len(MeasKeys(A)))>>
  /\ require_qubit_equality \in BOOLEAN
  /\ require_measurement_equality \in BOOLEAN
  /\ circuit_one = argOne
  /\ circuit_two = argTwo
  /\ circ = 0
  /\ measurements = <<>>
  /\ pc = "start"
  /\ result = "none"
  /\ ChoiIdle /\ PmtIdle

\* Lines 101-102: if circuit_one is circuit_two: return True
IdentityShortCircuit ==
  /\ call = "equal" /\ pc = "start"
  /\ circuit_one = circuit_two
  /\ pc' = "done"
  /\ result' = TRUE
  /\ UNCHANGED <<choiVars, pmtVars, circs, gateKeys, argOne, argTwo, callOne, callTwo,
                 require_qubit_equality, require_measurement_equality,
                 circuit_one, circuit_two, circ, measurements, call>>

\* Lines 104-105: the two names are rebound to deep copies.
DeepCopies ==
  /\ call = "equal" /\ pc = "start"
  /\ circuit_one # circuit_two
  /\ LET one == DeepCopy(circs[circuit_one], gateKeys)
         two == DeepCopy(circs[circuit_two], one.keys)
     IN /\ circs' = circs \o <<one.circuit, two.circuit>>
        /\ gateKeys' = two.keys
        /\ circuit_one' = Len(circs) + 1
        /\ circuit_two' = Len(circs) + 2
  /\ pc' = AfterCopies
  /\ UNCHANGED <<choiVars, pmtVars, argOne, argTwo, callOne, callTwo, require_qubit_equality,
                 require_measurement_equality, circ, measurements, result, call>>

\* Lines 107-115, every qubit of circuit_one being a key of qubit_map.
TransformQubitsOfOne ==
  /\ call = "equal" /\ pc = "transform"
  /\ LET qubit_map == QubitMap(AllQubits(circs[circuit_one]),
                               AllQubits(circs[circuit_two]))
     IN /\ AllQubits(circs[circuit_one]) \subseteq DOMAIN qubit_map
        /\ circs' = Append(circs, TransformQubits(circs[circuit_one], qubit_map))
        /\ circuit_one' = Len(circs) + 1
  /\ pc' = AfterQubits
  /\ UNCHANGED <<choiVars, pmtVars, gateKeys, argOne, argTwo, callOne, callTwo,
                 require_qubit_equality, require_measurement_equality,
                 circuit_two, circ, measurements, result, call>>

\* Lines 107-115, qubit_map[q] failing for a qubit of circuit_one that
\* zip left without a partner: the KeyError leaves _equal.
TransformQubitsKeyError ==
  /\ call = "equal" /\ pc = "transform"
  /\ LET qubit_map == QubitMap(AllQubits(circs[circuit_one]),
                               AllQubits(circs[circuit_two]))
     IN ~(AllQubits(circs[circuit_one]) \subseteq DOMAIN qubit_map)
  /\ pc' = "raised"
  /\ result' = "KeyError"
  /\ UNCHANGED <<choiVars, pmtVars, circs, gateKeys, argOne, argTwo, callOne, callTwo,
                 require_qubit_equality, require_measurement_equality,
                 circuit_one, circuit_two, circ, measurements, call>>

\* Lines 118-131, one iteration of the loop over (circuit_one, circuit_two).
NeutralizeMeasurements ==
  /\ call = "equal" /\ pc = "neutralize"
  /\ LET this == IF circ = 0 THEN circuit_one ELSE circuit_two
         found == FindallMeasurements(circs[this])
         removed == BatchRemove(circs[this], found)
     IN /\ circ' = this
        /\ measurements' = found
        /\ gateKeys' = ResetKeys(gateKeys, found)
        /\ circs' = [circs EXCEPT ![this] = BatchInsert(removed, found)]
        /\ pc' = IF this = circuit_two THEN "compare" ELSE "neutralize"
  /\ UNCHANGED <<choiVars, pmtVars, argOne, argTwo, callOne, callTwo, require_qubit_equality,
                 require_measurement_equality, circuit_one, circuit_two,
                 result, call>>

\* Lines 133-135
CompareDags ==
  /\ call = "equal" /\ pc = "compare"
  /\ result' = (CircuitDag(ValueOf(circs[circuit_one], gateKeys))
                  = CircuitDag(ValueOf(circs[circuit_two], gateKeys)))
  /\ pc' = "done"
  /\ UNCHANGED <<choiVars, pmtVars, circs, gateKeys, argOne, argTwo, callOne, callTwo,
                 require_qubit_equality, require_measurement_equality,
                 circuit_one, circuit_two, circ, measurements, call>>

NextEqual ==
  \/ IdentityShortCircuit
  \/ DeepCopies
  \/ TransformQubitsOfOne
  \/ TransformQubitsKeyError
  \/ NeutralizeMeasurements
  \/ CompareDags

SpecEqual == InitEqual /\ [][NextEqual]_vars

-----------------------------------------------------------------------------
(* Claims about _equal                                                     *)

Finished == pc \in {"done", "raised"}

\* C1 (as claimed): when the two circuits act on different numbers of
\* qubits and qubit equality is not required, _equal never raises and
\* returns False, whichever circuit has more qubits.
C1_DifferentSizesAreUnequal ==
  (/\ call = "equal"
   /\ ~require_qubit_equality
   /\ NumQubits(callOne) # NumQubits(callTwo))
  => /\ pc # "raised"
     /\ pc = "done" => result = FALSE

\* C2: at every point of a call of _equal, and after it has returned or
\* raised, the caller's two circuits hold the moments, operations, qubits
\* and measurement keys they held when the call was made.
C2_CallerCircuitsUnchanged ==
  call = "equal" =>
    /\ ValueOf(circs[argOne], gateKeys) = callOne
    /\ ValueOf(circs[argTwo], gateKeys) = callTwo

HasMeasurement(c) == \E k \in DOMAIN AllOperations(c) : IsMeasurement(AllOperations(c)[k])

\* C2 witness: a call has returned after resetting, in its working copies,
\* the keys of measurements that both of the caller's circuits contain.
C2_Witness ==
  /\ call = "equal" /\ pc = "done"
  /\ ~require_measurement_equality
  /\ HasMeasurement(callOne) /\ HasMeasurement(callTwo)
  /\ circ = circuit_two
  /\ \A r \in Refs(circs[circuit_one]) \cup Refs(circs[circuit_two]) : gateKeys[r] = ""

\* The relabelings f of the first circuit's qubits that give the second.
RelabelingsOntoTwo ==
  {f \in Injections(AllQubits(callOne), Labels) : callTwo = Relabel(callOne, f)}

MovesAQubit(f) == \E q \in DOMAIN f : f[q] # q

\* f maps the qubits of the first circuit onto another set of qubits.
OntoAnotherSet(f) == {f[q] : q \in DOMAIN f} # DOMAIN f

\* What C3 says of a call whose second circuit is f(first circuit).
RelabelingVerdict(f) ==
  /\ ~require_qubit_equality => (pc # "raised" /\ (pc = "done" => result = TRUE))
  /\ (require_qubit_equality /\ MovesAQubit(f) /\ pc = "done") => result = FALSE

\* C3 (as claimed): for any relabeling f of the qubits of C onto another set
\* of the same size, _equal(C, f(C)) is True when qubit equality is not
\* required, and False when it is required and f moves a qubit of C.
C3_AnyRelabelingIsEqual ==
  (call = "equal" /\ argOne # argTwo) =>
    \A f \in {g \in RelabelingsOntoTwo : OntoAnotherSet(g)} : RelabelingVerdict(f)

\* C3 (amended): the same for every order-preserving relabeling f, one that
\* sends the i-th smallest qubit of C to the i-th smallest qubit of f(C).
C3_OrderPreservingRelabelingIsEqual ==
  (call = "equal" /\ argOne # argTwo) =>
    \A f \in {g \in RelabelingsOntoTwo : OrderPreserving(g)} : RelabelingVerdict(f)

\* C3 witness: a two-qubit circuit on qubits {0, 1} and its copy on qubits
\* {1, 2} have been compared without qubit equality and found equal.
C3_Witness ==
  /\ call = "equal" /\ pc = "done" /\ argOne # argTwo
  /\ ~require_qubit_equality
  /\ AllQubits(callOne) = {0, 1} /\ AllQubits(callTwo) = {1, 2}
  /\ \E f \in RelabelingsOntoTwo : OrderPreserving(f)
  /\ result = TRUE

\* The circuit with every measurement key replaced by the empty string.
StripKeys(c) ==
  [i \in DOMAIN c |->
     [j \in DOMAIN c[i] |->
        IF IsMeasurement(c[i][j]) THEN [c[i][j] EXCEPT !.key = ""] ELSE c[i][j]]]

\* The two circuits are identical except for the keys of their measurements.
IdenticalExceptKeys == StripKeys(callOne) = StripKeys(callTwo)

\* C4, the verdicts: circuits identical except for measurement keys are
\* equal when measurement equality is not required, and unequal when it is
\* required and some pair of corresponding keys differs.
KeyVerdicts ==
  (call = "equal" /\ argOne # argTwo /\ IdenticalExceptKeys) =>
    /\ ~require_measurement_equality =>
         (pc # "raised" /\ (pc = "done" => result = TRUE))
    /\ (require_measurement_equality /\ callOne # callTwo /\ pc = "done")
         => result = FALSE

\* The measurement listed as measurements[k] sits in moment i (from 0) of
\* the circuit the loop has just treated, with the empty key.
MeasurementAt(k, i) ==
  /\ i + 1 \in DOMAIN circs[circ]
  /\ \E j \in DOMAIN circs[circ][i + 1] : circs[circ][i + 1][j] = measurements[k].op
  /\ gateKeys[measurements[k].op.ref] = ""

-----------------------------------------------------------------------------
(* _max_ent_state_circuit(num_qubits), lines 194-222, and                  *)
(* _circuit_to_choi(circuit), lines 225-243                                *)

\* Largest num_qubits handed to _max_ent_state_circuit directly (the
\* smallest is -1).
MaxNumQubits == 5

\* The qubit labels of the circuits handed to _circuit_to_choi.
ChoiLabels == {0, 1, 5}

ChoiCircuits == UNION {CircuitsOfSize(ChoiLabels, n) : n \in 0..MaxOps}

HOn(q) == [gate |-> "H", qubits |-> <<q>>, key |-> NoKey]

CNOTOn(c, t) == [gate |-> "CNOT", qubits |-> <<c, t>>, key |-> NoKey]

\* circ.append(op): Circuit.insert at the end with InsertStrategy.EARLIEST
CircuitAppend(ms, op) == CircuitInsert(ms, Len(ms), <<op>>).moments

\* _max_ent_state_circuit without its else branch: an unsupported size
\* gives back the empty circuit.
MaxEntStateCircuitNoElse(n) ==
  IF n = 2
  THEN [raised |-> FALSE,
        circuit |-> CircuitAppend(CircuitAppend(<<>>, HOn(0)), CNOTOn(0, 1))]
  ELSE IF n = 4
  THEN [raised |-> FALSE,
        circuit |-> CircuitAppend(CircuitAppend(CircuitAppend(CircuitAppend(
                      <<>>, HOn(0)), HOn(1)), CNOTOn(0, 2)), CNOTOn(1, 3))]
  ELSE [raised |-> FALSE, circuit |-> <<>>]

\* Lines 206-222 on qreg = LineQubit.range(num_qubits): the circuit
\* returned, or raised for the NotImplementedError of line 219.
MaxEntStateCircuit(n) ==
  IF n = 2
  THEN [raised |-> FALSE,
        circuit |-> CircuitAppend(CircuitAppend(<<>>, HOn(0)), CNOTOn(0, 1))]
  ELSE IF n = 4
  THEN [raised |-> FALSE,
        circuit |-> CircuitAppend(CircuitAppend(CircuitAppend(CircuitAppend(
                      <<>>, HOn(0)), HOn(1)), CNOTOn(0, 2)), CNOTOn(1, 3))]
  ELSE [raised |-> TRUE, circuit |-> <<>>]

RECURSIVE Pow2(_)
Pow2(n) == IF n = 0 THEN 1 ELSE 2 * Pow2(n - 1)

\* DensityMatrixSimulator().simulate(c).final_density_matrix, as far as its
\* shape goes: one qubit of the simulation per qubit the circuit acts on.
DensityMatrixOf(c) == [rows |-> Pow2(NumQubits(c)), cols |-> Pow2(NumQubits(c))]

InitChoi ==
  /\ call \in {"max_ent", "choi"}
  /\ IF call = "max_ent"
     THEN circuit = <<>> /\ num_qubits \in (-1)..MaxNumQubits
     ELSE circuit \in ChoiCircuits /\ num_qubits = 0
  /\ full_circ = <<>>
  /\ pc = "start"
  /\ result = "none"
  /\ EqualIdle /\ PmtIdle

\* A call of _max_ent_state_circuit(num_qubits) by itself.
MaxEntCall ==
  /\ call = "max_ent" /\ pc = "start"
  /\ LET r == MaxEntStateCircuit(num_qubits)
     IN IF r.raised
        THEN pc' = "raised" /\ result' = "NotImplementedError"
        ELSE pc' = "done" /\ result' = r.circuit
  /\ UNCHANGED <<equalVars, choiVars, pmtVars, call>>

\* Lines 238-240: the qubits are counted, full_circ starts out empty.
ChoiCountQubits ==
  /\ call = "choi" /\ pc = "start"
  /\ num_qubits' = NumQubits(circuit)
  /\ full_circ' = <<>>
  /\ pc' = "prepare"
  /\ UNCHANGED <<equalVars, pmtVars, circuit, result, call>>

\* Line 241: full_circ += _max_ent_state_circuit(2 * num_qubits); the
\* moments of the preparation are appended, or its exception leaves
\* _circuit_to_choi.
ChoiPrepare ==
  /\ call = "choi" /\ pc = "prepare"
  /\ LET r == MaxEntStateCircuit(2 * num_qubits)
     IN IF r.raised
        THEN /\ pc' = "raised"
             /\ result' = "NotImplementedError"
             /\ UNCHANGED full_circ
        ELSE /\ pc' = "append"
             /\ full_circ' = full_circ \o r.circuit
             /\ UNCHANGED result
  /\ UNCHANGED <<equalVars, pmtVars, circuit, num_qubits, call>>

\* Line 242: full_circ += circuit
ChoiAppendCircuit ==
  /\ call = "choi" /\ pc = "append"
  /\ full_circ' = full_circ \o circuit
  /\ pc' = "simulate"
  /\ UNCHANGED <<equalVars, pmtVars, circuit, num_qubits, result, call>>

\* Line 243
ChoiSimulate ==
  /\ call = "choi" /\ pc = "simulate"
  /\ result' = DensityMatrixOf(full_circ)
  /\ pc' = "done"
  /\ UNCHANGED <<equalVars, choiVars, pmtVars, call>>

NextChoi ==
  \/ MaxEntCall
  \/ ChoiCountQubits
  \/ ChoiPrepare
  \/ ChoiAppendCircuit
  \/ ChoiSimulate

SpecChoi == InitChoi /\ [][NextChoi]_vars

-----------------------------------------------------------------------------
(* Claims about _max_ent_state_circuit and _circuit_to_choi                *)

\* C5: _max_ent_state_circuit(num_qubits) returns a circuit exactly when
\* num_qubits is 2 or 4, a circuit that acts on the qubits 0..num_qubits-1;
\* for every other value it raises NotImplementedError and returns nothing.
C5_OnlyTwoOrFourQubits ==
  (call = "max_ent" /\ Finished) =>
    IF num_qubits \in {2, 4}
    THEN /\ pc = "done"
         /\ result # <<>>
         /\ AllQubits(result) = 0..(num_qubits - 1)
    ELSE /\ pc = "raised"
         /\ result = "NotImplementedError"

\* C5 witness: a call for 3 qubits has raised NotImplementedError.
C5_Witness ==
  /\ call = "max_ent" /\ num_qubits = 3
  /\ pc = "raised" /\ result = "NotImplementedError"

\* C6 (as claimed): for a circuit on n = 1 or 2 distinct qubits, whatever
\* their labels, the circuit _circuit_to_choi simulates acts on exactly 2n
\* qubits and the matrix returned is 2^(2n) x 2^(2n).
C6_ChoiActsOnTwiceTheQubits ==
  (call = "choi" /\ NumQubits(circuit) \in {1, 2}) =>
    /\ pc # "raised"
    /\ pc \in {"simulate", "done"} => NumQubits(full_circ) = 2 * NumQubits(circuit)
    /\ pc = "done" => result = [rows |-> Pow2(2 * NumQubits(circuit)),
                                cols |-> Pow2(2 * NumQubits(circuit))]

\* C7 (as claimed): for a circuit with no operations _circuit_to_choi does
\* not fail, and what it simulates is exactly a maximally entangled state
\* preparation.
C7_IdentityGivesReferenceState ==
  (call = "choi" /\ AllOperations(circuit) = <<>>) =>
    /\ pc # "raised"
    /\ pc \in {"simulate", "done"} =>
         \E n \in {2, 4} : full_circ = MaxEntStateCircuit(n).circuit

-----------------------------------------------------------------------------
(* _generate_pmt_circuit, lines 155-174, and _poor_mans_tomography,        *)
(* lines 177-192                                                           *)

\* Largest depth handed to _poor_mans_tomography.
MaxDepth == 4

\* The gates handed to _poor_mans_tomography: a gate family and an exponent.
GateFamilies == {"XPowGate", "ZPowGate", "CZPowGate"}

Gates == [family : GateFamilies, exponent : {"1", "1/2"}]

\* _get_base_gate(gate): the one-parameter family the gate belongs to,
\* which is called to build a member (base_gate(exponent=...)).
GetBaseGate(g) == g.family

\* gate().num_qubits() of a member of the family
GateNumQubits(family) == IF family = "CZPowGate" THEN 2 ELSE 1

\* The exponent 2*pi, the division by depth forgotten.
FullTurn(d) == [two_pi_over |-> 1]

\* Line 164: rotation_angle = 2*np.pi / depth, kept as the fraction it is.
RotationAngle(d) == [two_pi_over |-> d]

\* The test of line 169 catching only a gate with too few qubits.
ArityMismatchTooFew(family, qubits) == GateNumQubits(family) < Len(qubits)

\* Line 169: num_qubits != len(qubits)
ArityMismatch(family, qubits) == GateNumQubits(family) # Len(qubits)

\* Line 172: gate(exponent=rotation_angle)(*qubits)
GateOperation(family, exponent, qubits) ==
  [gate |-> family, exponent |-> exponent, qubits |-> qubits]

(***************************************************************************)
(* Lines 190-191 in floating point.  The executor's value E is a multiple  *)
(* of 1/4 (expectation = 4E); a float is kept as the class that decides    *)
(* what numpy does with it: "neg" (< 0), "zero", "small" (in (0, 1)),      *)
(* "one", "big" (> 1, finite), "nan", "inf", "-inf".  np.power and np.log  *)
(* warn and return nan or -inf outside their domain; they do not raise.    *)
(***************************************************************************)
Expectations == {0, 1, 2, 3, 4}

\* 2*expectation - 1
TwiceMinusOne(e) ==
  IF e < 2 THEN "neg" ELSE IF e = 2 THEN "zero" ELSE IF e = 3 THEN "small" ELSE "one"

\* np.power(x, 1/depth): nan for a negative base and a fractional exponent
NpPower(x, d) == IF x = "neg" /\ d > 1 THEN "nan" ELSE x

\* Q = (1 - r)/2, as its place relative to 0 and 1/2
HalfOfOneMinus(r) ==
  CASE r = "nan" -> "nan"
    [] r = "neg" -> "above_half"
    [] r = "zero" -> "half"
    [] r = "small" -> "below_half"
    [] r = "one" -> "zero"

\* 1 - 2*Q
OneMinusTwice(Q) ==
  CASE Q = "nan" -> "nan"
    [] Q = "above_half" -> "neg"
    [] Q = "half" -> "zero"
    [] Q = "below_half" -> "small"
    [] Q = "zero" -> "one"

\* np.log(x): -inf at 0 and nan below 0
NpLog(x) ==
  CASE x = "nan" -> "nan"
    [] x = "neg" -> "nan"
    [] x = "zero" -> "-inf"
    [] x = "small" -> "neg"
    [] x = "one" -> "zero"

\* -0.5 * x
MinusHalfTimes(x) ==
  CASE x = "nan" -> "nan"
    [] x = "-inf" -> "inf"
    [] x = "neg" -> "positive"
    [] x = "zero" -> "zero"

\* Lines 190-192
Sigma(e, d) == MinusHalfTimes(NpLog(OneMinusTwice(HalfOfOneMinus(NpPower(TwiceMinusOne(e), d)))))

InitPmt ==
  /\ call = "pmt"
  /\ gate \in Gates
  /\ qubit \in {0, 1}
  /\ depth \in 0..MaxDepth
  /\ base_gate = "none"
  /\ moments = <<>>
  /\ executor_calls = 0
  /\ executed = <<>>
  /\ expectation = "none"
  /\ pc = "start"
  /\ result = "none"
  /\ EqualIdle /\ ChoiIdle

\* Lines 187-188 and 164-165: the base gate is taken, _generate_pmt_circuit
\* is entered with qubits = [qubit]; the division of line 164 fails for
\* depth 0.
PmtEnter ==
  /\ call = "pmt" /\ pc = "start"
  /\ base_gate' = GetBaseGate(gate)
  /\ IF depth = 0
     THEN pc' = "raised" /\ result' = "ZeroDivisionError"
     ELSE pc' = "loop" /\ UNCHANGED result
  /\ UNCHANGED <<equalVars, choiVars, gate, qubit, depth, moments,
                 executor_calls, executed, expectation, call>>

\* Lines 166-173, one iteration of the loop over range(depth).
PmtAddMoment ==
  /\ call = "pmt" /\ pc = "loop"
  /\ Len(moments) < depth
  /\ IF ArityMismatch(base_gate, <<qubit>>)
     THEN /\ pc' = "raised"
          /\ result' = "CircuitMismatchException"
          /\ UNCHANGED moments
     ELSE /\ moments' = Append(moments,
                          <<GateOperation(base_gate, RotationAngle(depth), <<qubit>>)>>)
          /\ UNCHANGED <<pc, result>>
  /\ UNCHANGED <<equalVars, choiVars, gate, qubit, depth, base_gate,
                 executor_calls, executed, expectation, call>>

\* Lines 174 and 189: the loop is over, Circuit(moments) goes to the
\* executor, which returns some expectation value.
PmtExecute ==
  /\ call = "pmt" /\ pc = "loop"
  /\ Len(moments) = depth
  /\ executor_calls' = executor_calls + 1
  /\ executed' = Append(executed, moments)
  /\ expectation' \in Expectations
  /\ pc' = "invert"
  /\ UNCHANGED <<equalVars, choiVars, gate, qubit, depth, base_gate, moments,
                 result, call>>

\* Lines 190-192
PmtInvert ==
  /\ call = "pmt" /\ pc = "invert"
  /\ result' = Sigma(expectation, depth)
  /\ pc' = "done"
  /\ UNCHANGED <<equalVars, choiVars, pmtVars, call>>

NextPmt ==
  \/ PmtEnter
  \/ PmtAddMoment
  \/ PmtExecute
  \/ PmtInvert

SpecPmt == InitPmt /\ [][NextPmt]_vars

-----------------------------------------------------------------------------
(* Claims about _poor_mans_tomography                                      *)

\* The base gate acts on one qubit, the number of targets supplied.
ArityMatches == GateNumQubits(gate.family) = 1

\* C8: when the arity of the base gate differs from the one target qubit
\* and depth >= 1, no moment is ever built, the executor is never called,
\* and the call can only end by raising CircuitMismatchException.
C8_ArityMismatchRaises ==
  (call = "pmt" /\ depth >= 1 /\ ~ArityMatches) =>
    /\ moments = <<>>
    /\ executor_calls = 0 /\ executed = <<>>
    /\ pc \in {"start", "loop", "raised"}
    /\ pc = "raised" => result = "CircuitMismatchException"

\* C8 witness: a call with a two-qubit gate and depth 3 has raised
\* CircuitMismatchException.
C8_Witness ==
  /\ call = "pmt" /\ depth = 3 /\ ~ArityMatches
  /\ pc = "raised" /\ result = "CircuitMismatchException"
  /\ executor_calls = 0

\* The values of the executor for which Q >= 0.5 or 2E - 1 < 0: E <= 1/2.
OutOfDomain(e) == e \in {0, 1, 2}

\* C9 (as claimed): when the executor returns such a value the call fails
\* with an error; it returns no float.
C9_OutOfDomainRaises ==
  (call = "pmt" /\ executor_calls = 1 /\ OutOfDomain(expectation) /\ Finished)
    => pc = "raised"

\* C10: for depth >= 1 and a base gate of matching arity the call never
\* raises, the executor is called at most once and only after the loop,
\* and the one circuit it is given has depth moments, each holding the one
\* operation base_gate ** (2*pi/depth) on the target qubit.
C10_OneRotationPerMoment ==
  (call = "pmt" /\ depth >= 1 /\ ArityMatches) =>
    /\ pc # "raised"
    /\ executor_calls = Len(executed)
    /\ executor_calls = (IF pc \in {"invert", "done"} THEN 1 ELSE 0)
    /\ \A n \in DOMAIN executed :
         /\ Len(executed[n]) = depth
         /\ \A i \in DOMAIN executed[n] :
              executed[n][i] = <<[gate |-> gate.family,
                                  exponent |-> [two_pi_over |-> depth],
                                  qubits |-> <<qubit>>]>>

\* C10 witness: a call with depth 3 has returned after its one executor call.
C10_Witness ==
  /\ call = "pmt" /\ depth = 3 /\ ArityMatches
  /\ pc = "done" /\ executor_calls = 1 /\ Len(executed[1]) = 3

=============================================================================
